---- MODULE Spec2Model ----
(***************************************************************************)
(* Model of the Chat2Fill form autofill engine                             *)
(* (project/server/form_autofiller.py) and of the server tool that drives  *)
(* it through one module-level FormAutofiller (project/server/server.py).  *)
(*                                                                         *)
(* Spec      one FormAutofiller.autofill_form call, step by step, on a     *)
(*           target form with at most MaxPages next/continue transitions.  *)
(* LiveSpec  the same call under weak fairness, on a target form whose     *)
(*           next/continue control may be found after every click.         *)
(* ToolSpec  two overlapping autofill_form tool calls on the shared        *)
(*           autofiller, and one FormParser.parse_form_from_url call, at   *)
(*           the granularity of their awaits.                              *)
(* ExtractSpec    FormParser on one static document or provider page.      *)
(* TranslateSpec  MultilingualSupport.translate_form_fields on a schema.   *)
(* SessionSpec    the operations of SessionManager and the clock.          *)
(* FileSpec       the screenshot and log files of two autofill calls.      *)
(* SelectorSpec   FormAutofiller._get_field_selector on one field dict.    *)
(* ServerSpec     the session handling of the parse_form and               *)
(*                start_conversation tools.                                *)
(* ConvSpec       overlapping submit_user_response calls on one            *)
(*                conversation of the shared database.                     *)
(***************************************************************************)
EXTENDS Integers, Sequences, FiniteSets, TLC

\* ------------------------------------------------------------------ bounds
MaxFields == 2
MaxPages == 1
MaxClock == 3
MaxTicks == 2

\* In the always-next environment the result lists are kept up to LogCap
\* entries so that the state space stays finite.
LogCap == MaxFields + 2

\* ------------------------------------------------------------- input space
None == "None"
FieldTypes == {"text", "dropdown", "paragraph"}
ResponseCases == {"absent", "invalid", "valid1", "valid2"}

\* options carried by a choice field of the schema
FieldOptions(type) ==
    IF type \in {"dropdown", "select", "multiple_choice", "radio", "checkbox"}
    THEN << [text |-> "v1", value |-> "v1"] >>
    ELSE << >>

\* field i of a schema whose types are given by the sequence ts
SchemaField(ts, i) ==
    [id |-> i, label |-> i, type |-> ts[i], options |-> FieldOptions(ts[i])]

SchemaOf(ts) == [i \in 1..Len(ts) |-> SchemaField(ts, i)]

TypeSeqs == UNION {[1..n -> FieldTypes] : n \in 1..MaxFields}

ResponseEntry(i, c) ==
    [field_id |-> i,
     value |-> IF c = "valid2" THEN "v2" ELSE "v1",
     valid |-> c \in {"valid1", "valid2"}]

RECURSIVE ResponsesUpTo(_, _)
ResponsesUpTo(cs, k) ==
    IF k = 0 THEN << >>
    ELSE IF cs[k] = "absent" THEN ResponsesUpTo(cs, k - 1)
         ELSE Append(ResponsesUpTo(cs, k - 1), ResponseEntry(k, cs[k]))

\* ------------------------------------------------------------------- state
VARIABLES
    schema,         \* form_schema["forms"][0]["fields"]
    responses,      \* the responses list handed to autofill_form
    shotOk,         \* page.screenshot works in this session
    logOk,          \* the log directory accepts the JSON dump
    sticky,         \* the target keeps showing a next/continue control
    pc,             \* position of the call inside autofill_form
    mappings,       \* field_mappings, in dict order
    idx,            \* position of the for loop inside mappings
    current_page,   \* current_page of _fill_form_fields
    result,         \* the result dict
    visited,        \* <<page, position>> of every field the loop reached
    issued,         \* <<field id, value>> of every fill/select/click call
    failed,         \* <<kind, label>> of every per-field failure, in order
    faults,         \* kinds of failure the target produced so far
    submitCalled,   \* _submit_form was entered
    logged,         \* what _save_logs dumped, NoLog before
    autofiller,     \* playwright/context/page of the module-level autofiller
    parser,         \* playwright/context/page of the call's own FormParser
    open,           \* drivers, browsers and contexts that are running
    tpc,            \* position of each autofill_form tool call
    xpc,            \* position of the parse_form_from_url call
    ops,            \* <<caller, operation, owner of the handle, owner busy>>
    profileExists,  \* os.path.exists(autofiller.user_data_dir)
    parserProfile,  \* parser.chrome_profile_path is not ""
    source,         \* the document or page handed to the parser
    extracted,      \* what each extraction call on source returned
    heap,           \* the objects of the schema, by address
    heap0,          \* heap when translate_form_fields was called
    target_lang,    \* the language handed to translate_form_fields
    mlpc,           \* position inside translate_form_fields
    translated_schema,  \* address held by translated_schema, 0 before
    field_pos,      \* position of the loop over the fields
    returned,       \* address that translate_form_fields returned, 0 before
    session_data,   \* the session dicts built so far, by session id
    active_sessions,  \* the keys of SessionManager.active_sessions
    returned_ids,   \* the session ids that create_session returned
    terminated_ids, \* the session ids that terminate_session removed
    now,            \* datetime.now(), in ticks
    ret,            \* the last SessionManager call and what it returned
    clock,          \* datetime.now() of the autofill calls, in half seconds
    wstep,          \* position of each autofill call between its writes
    written,        \* paths of the screenshot and log files on disk
    clobbered,      \* paths that were written again over an earlier file
    descriptor,     \* the field dict handed to _get_field_selector
    selector,       \* what _get_field_selector returned for it
    session_current,  \* current_form_id and current_conversation_id, by id
    tool_response,  \* the last server tool call and its response
    client_ids,     \* the session ids the client got in responses
    form_fields,    \* len(db_manager.get_form_fields(form_id))
    conversation,   \* the row of the conversation in the database
    user_responses, \* number of user_responses rows of the conversation
    spc,            \* position of each submit_user_response call
    current_index   \* current_index of each submit_user_response call

inputs == << schema, responses, shotOk, logOk, sticky >>

callVars == << pc, mappings, idx, current_page, result, visited, issued,
               failed, faults, submitCalled, logged >>

toolVars == << autofiller, parser, open, tpc, xpc, ops, profileExists,
               parserProfile >>

extractVars == << source, extracted >>

translateVars == << heap, heap0, target_lang, mlpc, translated_schema,
                    field_pos, returned >>

sessionVars == << session_data, active_sessions, returned_ids,
                  terminated_ids, now, ret >>

fileVars == << clock, wstep, written, clobbered >>

selectorVars == << descriptor, selector >>

serverVars == << session_current, tool_response, client_ids >>

convVars == << form_fields, conversation, user_responses, spc, current_index >>

appVars == << selectorVars, serverVars, convVars >>

libVars == << extractVars, translateVars, sessionVars, fileVars, appVars >>

vars == << inputs, callVars, toolVars, libVars >>

NoPath == << "", 0 >>
NoLog == [status |-> "none"]

\* ---------------------------------------------------------------- helpers
Last(s) == s[Len(s)]

Push(s, x) == IF sticky /\ Len(s) >= LogCap THEN s ELSE Append(s, x)


\* _capture_screenshot: the path on success, "" when page.screenshot raises
CaptureScreenshot(prefix, n) == IF shotOk THEN << prefix, n >> ELSE NoPath

\* _save_logs: the path of the dump on success, "" when the write raises
SaveLogs(res) == IF logOk THEN << "autofill", 0 >> ELSE NoPath

\* the result dict autofill_form starts from
NewResult ==
    [status |-> "success", filled_fields |-> << >>, errors |-> << >>,
     screenshots |-> << >>, log_file |-> NoPath]

\* -------------------------------------------- _map_responses_to_fields
EmptyDict == [x \in {} |-> 0]

\* a mutant: the comprehension without its `if r.get("valid")` filter
AnyResponse(r) == TRUE

\* the filter of the comprehension: r.get("valid")
UsableResponse(r) == r.valid

\* {r["field_id"]: r for r in responses if r.get("valid")}
RECURSIVE ResponseDictUpTo(_, _)
ResponseDictUpTo(rs, k) ==
    IF k = 0 THEN EmptyDict
    ELSE LET d == ResponseDictUpTo(rs, k - 1)
             r == rs[k]
         IN  IF UsableResponse(r)
             THEN [x \in (DOMAIN d) \cup {r.field_id} |->
                      IF x = r.field_id THEN r ELSE d[x]]
             ELSE d

ResponseDict(rs) == ResponseDictUpTo(rs, Len(rs))

\* one entry of the mappings dict
MappingFor(field, response_dict) ==
    [field |-> field,
     value |-> IF field.id \in DOMAIN response_dict
               THEN response_dict[field.id].value
               ELSE None]

MapResponsesToFields(fields, rs) ==
    [i \in 1..Len(fields) |-> MappingFor(fields[i], ResponseDict(rs))]

\* ------------------------------------------------- _fill_form_fields
\* the if/elif chain on field["type"]
Dispatch(type) ==
    IF type \in {"text", "email", "number", "tel", "url", "password"}
    THEN "_fill_text_field"
    ELSE IF type = "textarea" THEN "_fill_textarea"
    ELSE IF type = "select" \/ type = "dropdown" THEN "_fill_select"
    ELSE IF type = "radio" \/ type = "multiple_choice"
         THEN "_fill_multiple_choice"
    ELSE IF type = "checkbox" THEN "_fill_checkbox"
    ELSE "unsupported"

\* opt["text"] == value or opt["value"] == value, for some option
MatchesOption(value, options) ==
    \E k \in 1..Len(options) :
        options[k].text = value \/ options[k].value = value

\* whether the _fill_* helper issues a fill/select_option/click/check call
IssuesAction(helper, value, options) ==
    IF helper \in {"_fill_text_field", "_fill_textarea"} THEN TRUE
    ELSE MatchesOption(value, options)

\* what the loop body does with one mapping, before any page call
FieldBranch(m) ==
    IF m.value = None THEN "no_value"
    ELSE IF Dispatch(m.field.type) = "unsupported" THEN "unsupported"
    ELSE "action"

\* a mutant: a failed field ends the loop over the page
AfterFieldPcBreak(failure, i, n) ==
    IF failure \/ i = n THEN "next" ELSE "fields"

\* the for loop goes on with the next mapping whatever happened to this
\* one: `continue` after a missing value or an unsupported type, and the
\* except clause of the inner try falls through to the next iteration
AfterFieldPc(failure, i, n) == IF i = n THEN "next" ELSE "fields"

\* result after a field that was not filled
FieldFailureResult(res, kind, field) ==
    LET withError ==
            [res EXCEPT !.errors = Push(@, << kind, field.label >>)]
    IN  IF kind = "fill_failed"
        THEN [withError EXCEPT !.screenshots =
                 Push(@, CaptureScreenshot("field_error", field.id))]
        ELSE withError

\* result after a field whose helper returned
FieldFilledResult(res, field) ==
    [res EXCEPT !.filled_fields = Push(@, field.label)]

\* ------------------------------------------------------- _submit_form
\* lines 290-295: what each outcome of the submit attempt leaves in errors
SubmitResult(res, outcome) ==
    IF outcome = "missing"
    THEN [res EXCEPT !.errors = Push(@, << "no_submit", 0 >>)]
    ELSE IF outcome = "raised"
    THEN [res EXCEPT !.errors = Push(@, << "submit", 0 >>)]
    ELSE res

\* ------------------------------------------ autofill_form, both exits
\* lines 102-103: final screenshot appended
FinalResult(res) ==
    [res EXCEPT !.screenshots = Push(@, CaptureScreenshot("final", 0))]

\* a mutant: the outer except clause without its screenshot
ErrorResultNoShot(res) ==
    [res EXCEPT !.status = "error",
                !.errors = Push(@, << "exception", 0 >>)]

\* lines 110-113: the outer except clause
ErrorResult(res) ==
    [res EXCEPT !.status = "error",
                !.errors = Push(@, << "exception", 0 >>),
                !.screenshots = Push(@, CaptureScreenshot("error", 0))]

\* a mutant: the path of the dump is not stored
WithLogFileUnset(res) == res

\* lines 104 and 114: dump the result, then store the path in it
WithLogFile(res) == [res EXCEPT !.log_file = SaveLogs(res)]

Dumped(res) == IF logOk THEN res ELSE NoLog


\* lines 222-225: the except clause of the page loop
PageErrorResult(res, page) ==
    [res EXCEPT !.errors = Push(@, << "page", page >>)]

\* current_page += 1
NextPage(page) == IF sticky /\ page >= MaxPages THEN page ELSE page + 1

\* a mutant: the page loop without its own try, a failed click reaches the
\* outer except clause
OnExceptionNoPageTry(site) ==
    IF site = "goto" \/ site = "click" THEN "error" ELSE "final"

\* where control goes when the awaited call at a site raises: page.goto is
\* caught by the outer except clause (108), the click of the next control by
\* the except clause of the page loop (222-225, which breaks), anything in
\* _submit_form by its own except clause (293-295)
OnException(site) ==
    IF site = "goto" THEN "error"
    ELSE IF site = "click" THEN "submit"
    ELSE "final"

\* ================================================================ actions
\* autofill_form up to the call of _fill_form_fields: page.goto, then
\* _wait_for_form (which swallows its timeouts) and _map_responses_to_fields
Navigate ==
    /\ pc = "start"
    /\ \E ok \in BOOLEAN :
          IF ok
          THEN /\ mappings' = MapResponsesToFields(schema, responses)
               /\ pc' = "fields"
               /\ faults' = faults
          ELSE /\ mappings' = mappings
               /\ pc' = OnException("goto")
               /\ faults' = faults \cup {"nav"}
    /\ idx' = 1
    /\ UNCHANGED << libVars, toolVars, inputs, current_page, result, visited, issued, failed,
                    submitCalled, logged >>

\* one iteration of `for field_id, mapping in mappings.items()`
FillField ==
    /\ pc = "fields"
    /\ LET m == mappings[idx]
           branch == FieldBranch(m)
           helper == Dispatch(m.field.type)
       IN  \E raised \in BOOLEAN :
              /\ raised => branch = "action"
              /\ LET kind == IF branch # "action" THEN branch
                             ELSE IF raised THEN "fill_failed" ELSE "ok"
                 IN  /\ result' = IF kind = "ok"
                                  THEN FieldFilledResult(result, m.field)
                                  ELSE FieldFailureResult(result, kind, m.field)
                     /\ failed' = IF kind = "ok" THEN failed
                                  ELSE Push(failed, << kind, m.field.label >>)
                     /\ pc' = AfterFieldPc(kind # "ok", idx, Len(mappings))
              /\ issued' = IF branch = "action"
                              /\ IssuesAction(helper, m.value, m.field.options)
                           THEN issued \cup {<< m.field.id, m.value >>}
                           ELSE issued
              /\ faults' = IF raised THEN faults \cup {"input"} ELSE faults
    /\ idx' = IF pc' = "fields" THEN idx + 1 ELSE 1
    /\ visited' = visited \cup {<< current_page, idx >>}
    /\ UNCHANGED << libVars, toolVars, inputs, mappings, current_page, submitCalled, logged >>

\* lines 212-225: _find_next_button, the click and the page transition
\* (the "page_n" screenshot of line 220 is taken and not kept in result)
FindNext ==
    /\ pc = "next"
    /\ \E outcome \in {"none", "clicked", "click_raised"} :
          /\ outcome = "clicked" => (sticky \/ current_page < MaxPages)
          /\ IF outcome = "clicked"
             THEN /\ current_page' = NextPage(current_page)
                  /\ pc' = "fields"
                  /\ result' = result
                  /\ faults' = faults
             ELSE IF outcome = "click_raised"
             THEN /\ current_page' = current_page
                  /\ pc' = OnException("click")
                  /\ result' = PageErrorResult(result, current_page)
                  /\ faults' = faults \cup {"click"}
             ELSE /\ current_page' = current_page
                  /\ pc' = "submit"
                  /\ result' = result
                  /\ faults' = faults
    /\ idx' = 1
    /\ UNCHANGED << libVars, toolVars, inputs, mappings, visited, issued, failed, submitCalled,
                    logged >>

\* _submit_form
SubmitForm ==
    /\ pc = "submit"
    /\ \E outcome \in {"clicked", "missing", "raised"} :
          /\ result' = SubmitResult(result, outcome)
          /\ faults' = IF outcome = "clicked" THEN faults
                       ELSE faults \cup {"submit"}
    /\ submitCalled' = TRUE
    /\ pc' = OnException("submit")
    /\ UNCHANGED << libVars, toolVars, inputs, mappings, idx, current_page, visited, issued,
                    failed, logged >>

\* lines 102-106: the success exit
Finalize ==
    /\ pc = "final"
    /\ result' = WithLogFile(FinalResult(result))
    /\ logged' = Dumped(FinalResult(result))
    /\ pc' = "done"
    /\ UNCHANGED << libVars, toolVars, inputs, mappings, idx, current_page, visited, issued,
                    failed, faults, submitCalled >>

\* lines 108-115: the outer except clause
HandleError ==
    /\ pc = "error"
    /\ result' = WithLogFile(ErrorResult(result))
    /\ logged' = Dumped(ErrorResult(result))
    /\ pc' = "done"
    /\ UNCHANGED << libVars, toolVars, inputs, mappings, idx, current_page, visited, issued,
                    failed, faults, submitCalled >>


\* ================================================= browser session handles
\* A handle is <<kind, call that acquired it, call whose driver runs it>>.
\* the two overlapping autofill_form tool calls, and the extraction call
Calls == {1, 2}
ExtractId == Cardinality(Calls) + 1

NoHandle == << "none", 0, 0 >>
NoSession == [playwright |-> NoHandle, context |-> NoHandle, page |-> NoHandle]

Owner(h) == h[2]
DriverOf(h) == h[3]

\* the owner of the handle is a tool call that has not returned yet
Busy(o) == o \in Calls /\ tpc[o] \notin {"idle", "done"}

\* one operation of call c on handle h (none when the attribute is None)
OpsOn(c, op, h) ==
    IF h = NoHandle THEN {} ELSE {<< c, op, Owner(h), Busy(Owner(h)) >>}

\* context.close() returned
AfterContextClose(opn, h) == opn \ {h}

\* playwright.stop() returned: the driver ends with all it launched
AfterStop(opn, h) == {g \in opn : DriverOf(g) # DriverOf(h)}

\* FormAutofiller.close / FormParser.close from `if self.playwright:` on;
\* an exception of stop() is swallowed by the except clause of close
StopEffect(session, opn, ok) ==
    IF session.playwright # NoHandle /\ ok
    THEN AfterStop(opn, session.playwright)
    ELSE opn

\* ------------------------------------ server.autofill_form, tool call c
\* lines 917-921: `if not url` returns through the finally clause
ToolEnter(c) ==
    /\ tpc[c] = "idle"
    /\ \E urlEmpty \in BOOLEAN :
          tpc' = [tpc EXCEPT ![c] = IF urlEmpty THEN "close" ELSE "init_start"]
    /\ UNCHANGED << libVars, inputs, callVars, autofiller, parser, open, xpc, ops,
                    profileExists, parserProfile >>

\* FormAutofiller.initialize, lines 56-58
InitStart(c) ==
    /\ tpc[c] = "init_start"
    /\ \E ok \in BOOLEAN :
          IF ok
          THEN /\ autofiller' =
                     [autofiller EXCEPT !.playwright = << "driver", c, c >>]
               /\ open' = open \cup {<< "driver", c, c >>}
               /\ ops' = ops \cup OpsOn(c, "overwrite", autofiller.playwright)
               /\ tpc' = [tpc EXCEPT ![c] = IF profileExists
                                            THEN "init_launch" ELSE "close"]
          ELSE /\ tpc' = [tpc EXCEPT ![c] = "close"]
               /\ UNCHANGED << autofiller, open, ops >>
    /\ UNCHANGED << libVars, inputs, callVars, parser, xpc, profileExists,
                    parserProfile >>

\* FormAutofiller.initialize, lines 60-65
InitLaunch(c) ==
    /\ tpc[c] = "init_launch"
    /\ \E ok \in BOOLEAN :
          IF ok
          THEN LET h == << "context", c, DriverOf(autofiller.playwright) >>
               IN  /\ autofiller' = [autofiller EXCEPT !.context = h]
                   /\ open' = open \cup {h}
                   /\ ops' = ops \cup OpsOn(c, "overwrite", autofiller.context)
                   /\ tpc' = [tpc EXCEPT ![c] = "init_page"]
          ELSE /\ tpc' = [tpc EXCEPT ![c] = "close"]
               /\ UNCHANGED << autofiller, open, ops >>
    /\ UNCHANGED << libVars, inputs, callVars, parser, xpc, profileExists,
                    parserProfile >>

\* FormAutofiller.initialize, line 66
InitPage(c) ==
    /\ tpc[c] = "init_page"
    /\ \E ok \in BOOLEAN :
          IF ok
          THEN /\ autofiller' = [autofiller EXCEPT !.page =
                     << "page", c, DriverOf(autofiller.context) >>]
               /\ ops' = ops \cup OpsOn(c, "new_page", autofiller.context)
                             \cup OpsOn(c, "overwrite", autofiller.page)
               /\ tpc' = [tpc EXCEPT ![c] = "goto"]
          ELSE /\ autofiller' = autofiller
               /\ ops' = ops \cup OpsOn(c, "new_page", autofiller.context)
               /\ tpc' = [tpc EXCEPT ![c] = "close"]
    /\ UNCHANGED << libVars, inputs, callVars, parser, open, xpc, profileExists,
                    parserProfile >>

\* FormAutofiller.autofill_form, line 93, on whatever self.page is now;
\* a failure ends in the outer except clause and the result is returned
ToolGoto(c) ==
    /\ tpc[c] = "goto"
    /\ ops' = ops \cup OpsOn(c, "goto", autofiller.page)
    /\ \E ok \in BOOLEAN :
          tpc' = [tpc EXCEPT ![c] = IF ok THEN "fill" ELSE "close"]
    /\ UNCHANGED << libVars, inputs, callVars, autofiller, parser, open, xpc,
                    profileExists, parserProfile >>

\* FormAutofiller.autofill_form, lines 96-106, on whatever self.page is now
ToolFill(c) ==
    /\ tpc[c] = "fill"
    /\ ops' = ops \cup OpsOn(c, "fill", autofiller.page)
    /\ tpc' = [tpc EXCEPT ![c] = "close"]
    /\ UNCHANGED << libVars, inputs, callVars, autofiller, parser, open, xpc,
                    profileExists, parserProfile >>

\* the finally clause: FormAutofiller.close up to the end of
\* `await self.context.close()`; without a context it goes on to stop()
CloseContext(c) ==
    /\ tpc[c] = "close"
    /\ \E ok \in BOOLEAN :
          IF autofiller.context # NoHandle
          THEN /\ ops' = ops \cup OpsOn(c, "close", autofiller.context)
               /\ open' = IF ok
                          THEN AfterContextClose(open, autofiller.context)
                          ELSE open
               /\ tpc' = [tpc EXCEPT ![c] = IF ok THEN "stop" ELSE "done"]
          ELSE /\ ops' = ops \cup OpsOn(c, "stop", autofiller.playwright)
               /\ open' = StopEffect(autofiller, open, ok)
               /\ tpc' = [tpc EXCEPT ![c] = "done"]
    /\ UNCHANGED << libVars, inputs, callVars, autofiller, parser, xpc,
                    profileExists, parserProfile >>

\* FormAutofiller.close, lines 77-78
StopPlaywright(c) ==
    /\ tpc[c] = "stop"
    /\ \E ok \in BOOLEAN :
          /\ ops' = ops \cup OpsOn(c, "stop", autofiller.playwright)
          /\ open' = StopEffect(autofiller, open, ok)
    /\ tpc' = [tpc EXCEPT ![c] = "done"]
    /\ UNCHANGED << libVars, inputs, callVars, autofiller, parser, xpc,
                    profileExists, parserProfile >>

\* ------------------------------------- FormParser.parse_form_from_url
\* FormParser.__init__, lines 108-111: whether a profile path is kept; a
\* configured path that does not exist is replaced by ""
ChromeProfilePath(use_profile, exists) == use_profile /\ exists

\* FormParser.initialize, line 127
ParserStart ==
    /\ xpc = "init_start"
    /\ \E ok \in BOOLEAN :
          IF ok
          THEN /\ parser' = [parser EXCEPT !.playwright =
                                << "driver", ExtractId, ExtractId >>]
               /\ open' = open \cup {<< "driver", ExtractId, ExtractId >>}
               /\ xpc' = IF parserProfile THEN "init_profile"
                         ELSE "init_browser"
          ELSE /\ xpc' = "close"
               /\ UNCHANGED << parser, open >>
    /\ UNCHANGED << libVars, inputs, callVars, autofiller, tpc, ops, profileExists,
                    parserProfile >>

\* FormParser.initialize, lines 128-138: a failure falls back to a new
\* browser
ParserProfile ==
    /\ xpc = "init_profile"
    /\ \E ok \in BOOLEAN :
          IF ok
          THEN /\ parser' = [parser EXCEPT !.context =
                                << "context", ExtractId, ExtractId >>]
               /\ open' = open \cup {<< "context", ExtractId, ExtractId >>}
               /\ xpc' = "init_page"
          ELSE /\ xpc' = "init_browser"
               /\ UNCHANGED << parser, open >>
    /\ UNCHANGED << libVars, inputs, callVars, autofiller, tpc, ops, profileExists,
                    parserProfile >>

\* FormParser.initialize, lines 139 and 142: chromium.launch
ParserBrowser ==
    /\ xpc = "init_browser"
    /\ \E ok \in BOOLEAN :
          IF ok
          THEN /\ open' = open \cup {<< "browser", ExtractId, ExtractId >>}
               /\ xpc' = "init_context"
          ELSE /\ xpc' = "close"
               /\ open' = open
    /\ UNCHANGED << libVars, inputs, callVars, autofiller, parser, tpc, ops,
                    profileExists, parserProfile >>

\* FormParser.initialize, lines 140 and 143: browser.new_context
ParserContext ==
    /\ xpc = "init_context"
    /\ \E ok \in BOOLEAN :
          IF ok
          THEN /\ parser' = [parser EXCEPT !.context =
                                << "context", ExtractId, ExtractId >>]
               /\ open' = open \cup {<< "context", ExtractId, ExtractId >>}
               /\ xpc' = "init_page"
          ELSE /\ xpc' = "close"
               /\ UNCHANGED << parser, open >>
    /\ UNCHANGED << libVars, inputs, callVars, autofiller, tpc, ops, profileExists,
                    parserProfile >>

\* FormParser.initialize, line 144
ParserPage ==
    /\ xpc = "init_page"
    /\ \E ok \in BOOLEAN :
          IF ok
          THEN /\ parser' = [parser EXCEPT !.page =
                                << "page", ExtractId, ExtractId >>]
               /\ xpc' = "parse"
          ELSE /\ xpc' = "close"
               /\ parser' = parser
    /\ UNCHANGED << libVars, inputs, callVars, autofiller, open, tpc, ops,
                    profileExists, parserProfile >>

\* parse_form_from_url, lines 186-224: it returns the schema or raises
\* ValueError; both leave through the finally clause
ParserParse ==
    /\ xpc = "parse"
    /\ xpc' = "close"
    /\ UNCHANGED << libVars, inputs, callVars, autofiller, parser, open, tpc, ops,
                    profileExists, parserProfile >>

\* the finally clause: FormParser.close up to the end of
\* `await self.context.close()`; without a context it goes on to stop()
ParserCloseContext ==
    /\ xpc = "close"
    /\ \E ok \in BOOLEAN :
          IF parser.context # NoHandle
          THEN /\ open' = IF ok THEN AfterContextClose(open, parser.context)
                          ELSE open
               /\ xpc' = IF ok THEN "stop" ELSE "done"
          ELSE /\ open' = StopEffect(parser, open, ok)
               /\ xpc' = "done"
    /\ UNCHANGED << libVars, inputs, callVars, autofiller, parser, tpc, ops,
                    profileExists, parserProfile >>

\* FormParser.close, lines 155-156
ParserStop ==
    /\ xpc = "stop"
    /\ \E ok \in BOOLEAN : open' = StopEffect(parser, open, ok)
    /\ xpc' = "done"
    /\ UNCHANGED << libVars, inputs, callVars, autofiller, parser, tpc, ops,
                    profileExists, parserProfile >>

\* ------------------------------------------------- FormParser.parse_html
\* A static document: whether it has a <form>, the controls of the form in
\* document order, and the control (0: none) whose processing raises.  Each
\* control sits in one element of the skeleton
\*     form > div      form > fieldset "fs"      fs > fieldset "fs_fs"
\* and an element of the skeleton is in the document when it holds a control.
Containers == {"form", "div", "fs", "fs_fs"}

ParentOf(c) == IF c = "fs_fs" THEN "fs" ELSE "form"

IsFieldset(c) == c \in {"fs", "fs_fs"}

\* an element placed in container c is a descendant of the element anc
RECURSIVE Inside(_, _)
Inside(c, anc) == c = anc \/ (c # "form" /\ Inside(ParentOf(c), anc))

\* tag, type attribute, required attribute and <option> texts of the
\* controls considered
ControlKinds ==
    { [tag |-> "input", type |-> "email", required |-> TRUE,
       options |-> << >>],
      [tag |-> "input", type |-> "email", required |-> FALSE,
       options |-> << >>],
      [tag |-> "input", type |-> "hidden", required |-> FALSE,
       options |-> << >>],
      [tag |-> "textarea", type |-> None, required |-> FALSE,
       options |-> << >>],
      [tag |-> "select", type |-> None, required |-> FALSE,
       options |-> << "A", "B" >>],
      [tag |-> "select", type |-> None, required |-> FALSE,
       options |-> << "A", "A" >>] }

\* <label for=...> text, wrapping <label> text, aria-label attribute
LabelCases ==
    { [for_label |-> None, parent_label |-> None, aria_label |-> None],
      [for_label |-> "Name", parent_label |-> None, aria_label |-> None],
      [for_label |-> None, parent_label |-> "", aria_label |-> None],
      [for_label |-> None, parent_label |-> None, aria_label |-> "Aria"] }

Controls ==
    { [kind |-> k, id |-> i, labels |-> l, container |-> c] :
        k \in ControlKinds, i \in {None, "a"}, l \in LabelCases,
        c \in Containers }

ControlSlots == {1, 2}

Documents ==
    { [form |-> FALSE, controls |-> << >>, raises |-> 0] }
      \cup { [form |-> TRUE, controls |-> cs, raises |-> x] :
               cs \in {<< >>} \cup UNION {[1..n -> Controls] : n \in ControlSlots},
               x \in {0, 1} }

\* str(uuid4()) evaluated by run number run at the call site site: a value
\* that no other evaluation returns
NoSite == << "", 0, "" >>
Uuid4(run, site) == << "uuid", "", run, site >>
Attr(text) == << "attr", text, 0, NoSite >>
NoUuid == << "none", "", 0, NoSite >>

supported_input_types ==
    {"text", "number", "email", "date", "tel", "url", "password", "radio",
     "checkbox", "select", "textarea", "file"}

SeqElems(s) == {s[k] : k \in 1..Len(s)}

Min(S) == CHOOSE x \in S : \A y \in S : x <= y

\* parent.find_all(['input', 'select', 'textarea'], recursive=...): indices
\* of the controls found, in document order
FindAllControls(doc, parent, recursive) ==
    SelectSeq([i \in 1..Len(doc.controls) |-> i],
              LAMBDA i : IF recursive
                         THEN Inside(doc.controls[i].container, parent)
                         ELSE doc.controls[i].container = parent)

\* parent.find_all('fieldset', recursive=False)
FindFieldsets(doc, parent) ==
    SelectSeq(<< "fs", "fs_fs" >>,
              LAMBDA f : /\ ParentOf(f) = parent
                         /\ \E i \in 1..Len(doc.controls) :
                               Inside(doc.controls[i].container, f))

\* FormParser._find_label; a label is << text, uuid of the placeholder >>
FindLabel(doc, i, run, site) ==
    LET e == doc.controls[i]
        fors == {j \in 1..Len(doc.controls) :
                    /\ doc.controls[j].id = e.id
                    /\ doc.controls[j].labels.for_label # None}
    IN  IF e.id # None /\ fors # {}
        THEN << doc.controls[Min(fors)].labels.for_label, NoUuid >>
        ELSE IF e.labels.parent_label # None
        THEN << e.labels.parent_label, NoUuid >>
        ELSE IF e.labels.aria_label # None
        THEN << e.labels.aria_label, NoUuid >>
        ELSE << "Untitled Field", Uuid4(run, site) >>

OptionEntry(text) == [value |-> text, text |-> text]

\* FormParser._parse_select_options
ParseSelectOptions(texts) == [k \in 1..Len(texts) |-> OptionEntry(texts[k])]

FieldId(e, run, site) == IF e.id # None THEN Attr(e.id) ELSE Uuid4(run, site)

\* FormParser._parse_field: << >> for None, << field_data >> otherwise
ParseField(doc, i, run, parent) ==
    LET e == doc.controls[i]
        tag_name == e.kind.tag
        field_type == IF e.kind.type = None THEN tag_name ELSE e.kind.type
    IN  IF field_type \notin supported_input_types
             /\ tag_name \notin {"select", "textarea"}
        THEN << >>
        ELSE << [id |-> FieldId(e, run, << parent, i, "id" >>),
                 type |-> field_type,
                 required |-> e.kind.required,
                 label |-> FindLabel(doc, i, run, << parent, i, "label" >>),
                 has_options |-> tag_name = "select",
                 options |-> IF tag_name = "select"
                             THEN ParseSelectOptions(e.kind.options)
                             ELSE << >>] >>

RECURSIVE FieldsOf(_, _, _, _)
FieldsOf(doc, elems, run, parent) ==
    IF elems = << >> THEN << >>
    ELSE ParseField(doc, Head(elems), run, parent)
            \o FieldsOf(doc, Tail(elems), run, parent)

\* FormParser._parse_fields
ParseFields(doc, parent, exclude_fieldsets, run) ==
    FieldsOf(doc, FindAllControls(doc, parent, ~exclude_fieldsets), run,
             parent)

\* FormParser._parse_fieldsets
RECURSIVE ParseFieldsets(_, _, _)
ParseFieldsets(doc, parent, run) ==
    LET found == FindFieldsets(doc, parent)
    IN  [k \in 1..Len(found) |->
            [id |-> Uuid4(run, << found[k], 0, "fieldset" >>),
             fields |-> ParseFields(doc, found[k], FALSE, run),
             fieldsets |-> ParseFieldsets(doc, found[k], run)]]

\* FormParser._parse_form
ParseForm(doc, run) ==
    [id |-> Uuid4(run, << "form", 0, "form" >>),
     fieldsets |-> ParseFieldsets(doc, "form", run),
     fields |-> ParseFields(doc, "form", TRUE, run)]

\* the loop of _parse_fields reaches the control whose processing raises
FieldsRaise(doc, parent, exclude_fieldsets) ==
    doc.raises \in SeqElems(FindAllControls(doc, parent, ~exclude_fieldsets))

RECURSIVE FieldsetsRaise(_, _)
FieldsetsRaise(doc, parent) ==
    \E f \in SeqElems(FindFieldsets(doc, parent)) :
       FieldsRaise(doc, f, FALSE) \/ FieldsetsRaise(doc, f)

ValueError == [status |-> "ValueError", forms |-> << >>]

Parsed(forms) == [status |-> "ok", forms |-> forms]

\* FormParser.parse_html
ParseHtml(doc, run) ==
    IF ~doc.form THEN Parsed(<< >>)
    ELSE IF FieldsetsRaise(doc, "form") \/ FieldsRaise(doc, "form", TRUE)
    THEN ValueError
    ELSE Parsed(<< ParseForm(doc, run) >>)

\* FormParser.parse_html called on the document once more
ParseHtmlCall ==
    /\ source.provider = "html"
    /\ Len(extracted) < 2
    /\ extracted' = Append(extracted, ParseHtml(source.doc, Len(extracted) + 1))
    /\ UNCHANGED << appVars, inputs, callVars, toolVars, translateVars, sessionVars,
                    fileVars, source >>

\* ------------------------- FormParser.parse_google_form and the like
\* A question container of a provider page: the text of its title element
\* (None: no such element), the controls it holds, its option elements
\* (inner text and data-value attribute) and the query at which Playwright
\* raises ("none": nowhere).
OptA == [text |-> "A", value |-> None]
OptBA == [text |-> "B", value |-> "A"]
OptOther == [text |-> "Other", value |-> None]
OtherRadio == [text |-> "Other:", value |-> "__other_option__"]

OptionLists ==
    { << >>, << OptA >>, << OptA, OptA >>, << OptA, OptBA >>,
      << OptA, OptOther >>, << OtherRadio >>, << OptA, OtherRadio >>,
      << OptA, OptOther, OtherRadio >> }

ChoiceControls ==
    { {"radio_role"}, {"radio_input"}, {"checkbox_role"}, {"checkbox_input"},
      {"listbox"}, {"radio_role", "text_input"},
      {"checkbox_role", "text_input"} }

PlainControls == { {}, {"text_input"}, {"textarea"} }

Blocks ==
    { [title |-> "Q", controls |-> k, required |-> FALSE, opts |-> o,
       raises |-> "none"] : k \in ChoiceControls, o \in OptionLists }
      \cup { [title |-> t, controls |-> k, required |-> r, opts |-> << >>,
              raises |-> "none"] :
               t \in {None, "", "Q"}, k \in PlainControls, r \in BOOLEAN }
      \cup { [title |-> "Q", controls |-> {"text_input"}, required |-> FALSE,
              opts |-> << >>, raises |-> x] : x \in {"label", "type"} }

BlockSlots == {1, 2}

Pages == {<< >>} \cup UNION {[1..n -> Blocks] : n \in BlockSlots}

ChoiceTypes == {"multiple_choice", "dropdown", "checkbox"}

\* the option texts in the order of Python's str comparison
SortOrder == << "A", "B", "Other", "Other:" >>

\* sorted(set(options))
SortedSet(options) ==
    SelectSeq(SortOrder, LAMBDA t : t \in SeqElems(options))

OptionEntries(texts) == [k \in 1..Len(texts) |-> OptionEntry(texts[k])]

\* f"Untitled Question {idx}"
UntitledQuestion(qn) ==
    << "Untitled Question", << "idx", "", qn, NoSite >> >>

\* parse_google_form, lines 260-261
GoogleLabel(b, qn) ==
    IF b.title \in {None, ""} THEN UntitledQuestion(qn)
    ELSE << b.title, NoUuid >>

\* parse_google_form, lines 262-275
GoogleFieldType(controls) ==
    IF "radio_role" \in controls THEN "multiple_choice"
    ELSE IF "text_input" \in controls THEN "text"
    ELSE IF "textarea" \in controls THEN "paragraph"
    ELSE IF controls \cap {"checkbox_input", "checkbox_role"} # {}
    THEN "checkbox"
    ELSE IF "listbox" \in controls THEN "dropdown"
    ELSE "text"

\* parse_google_form, lines 304-311: the option loop of one selector
RECURSIVE GoogleOptionValues(_, _, _)
GoogleOptionValues(opts, label, options) ==
    IF opts = << >> THEN options
    ELSE LET opt_text == Head(opts).text
             opt_value == IF Head(opts).value \in {None, ""} THEN opt_text
                          ELSE Head(opts).value
             keep == /\ opt_text # ""
                     /\ opt_text # label
                     /\ opt_text \notin SeqElems(options)
                     /\ opt_text # "Other:"
                     /\ opt_value # "__other_option__"
         IN  GoogleOptionValues(Tail(opts), label,
                                IF keep THEN Append(options, opt_value)
                                ELSE options)

\* block.query_selector('div[role="radio"][data-value="__other_option__"]')
HasOtherRadio(b) ==
    \E k \in 1..Len(b.opts) : b.opts[k].value = "__other_option__"

\* parse_google_form, one pass of the loop over question_blocks: << >> when
\* the except clause of the block is taken, << field >> otherwise
GoogleBlock(b, qn, run) ==
    LET label == GoogleLabel(b, qn)
        field_type == GoogleFieldType(b.controls)
        choice == field_type \in ChoiceTypes
        options == IF choice THEN GoogleOptionValues(b.opts, label[1], << >>)
                   ELSE << >>
        other == choice /\ HasOtherRadio(b)
    IN  IF b.raises # "none" THEN << >>
        ELSE IF other /\ options = << >> THEN << >>
        ELSE << [id |-> Uuid4(run, << "google", qn, "id" >>),
                 type |-> field_type,
                 required |-> b.required,
                 label |-> label,
                 has_options |-> options # << >>,
                 options |-> OptionEntries(SortedSet(options))
                               \o (IF other THEN << OptionEntry("Other") >>
                                   ELSE << >>)] >>

RECURSIVE GoogleFields(_, _, _)
GoogleFields(blocks, qn, run) ==
    IF qn > Len(blocks) THEN << >>
    ELSE GoogleBlock(blocks[qn], qn, run) \o GoogleFields(blocks, qn + 1, run)

\* the except clause of a block formats the variable label, line 340: it
\* is unbound when the first block raises before line 261 has assigned it
LabelUnbound(blocks) == blocks # << >> /\ blocks[1].raises = "label"

\* FormParser.parse_google_form
GoogleForm(blocks, run) ==
    IF LabelUnbound(blocks) THEN ValueError
    ELSE Parsed(<< [id |-> Uuid4(run, << "google", 0, "form" >>),
                    fieldsets |-> << >>,
                    fields |-> GoogleFields(blocks, 1, run)] >>)

\* parse_typeform, line 371; parse_microsoft_form, line 440
TypeformLabel(b, qn) ==
    IF b.title \in {None, ""} THEN UntitledQuestion(qn)
    ELSE << b.title, NoUuid >>

\* parse_typeform, lines 372-384; parse_microsoft_form, lines 441-454
TypeformFieldType(controls) ==
    IF controls \cap {"text_input", "radio_input", "checkbox_input"} # {}
    THEN "text"
    ELSE IF "textarea" \in controls THEN "paragraph"
    ELSE IF "radio_role" \in controls THEN "multiple_choice"
    ELSE IF "checkbox_role" \in controls THEN "checkbox"
    ELSE IF "listbox" \in controls THEN "dropdown"
    ELSE "text"

\* parse_typeform, lines 401-402: the inner texts that are not blank
TypeformOptionTexts(opts) ==
    LET kept == SelectSeq(opts, LAMBDA o : o.text # "")
    IN  [k \in 1..Len(kept) |-> kept[k].text]

\* parse_typeform and parse_microsoft_form, one pass of the loop
TypeformBlock(b, qn, run, provider) ==
    LET field_type == TypeformFieldType(b.controls)
        options == IF field_type \in ChoiceTypes
                   THEN TypeformOptionTexts(b.opts) ELSE << >>
    IN  IF b.raises # "none" THEN << >>
        ELSE << [id |-> Uuid4(run, << provider, qn, "id" >>),
                 type |-> field_type,
                 required |-> b.required,
                 label |-> TypeformLabel(b, qn),
                 has_options |-> options # << >>,
                 options |-> OptionEntries(SortedSet(options))] >>

RECURSIVE TypeformFields(_, _, _, _)
TypeformFields(blocks, qn, run, provider) ==
    IF qn > Len(blocks) THEN << >>
    ELSE TypeformBlock(blocks[qn], qn, run, provider)
            \o TypeformFields(blocks, qn + 1, run, provider)

\* FormParser.parse_typeform
Typeform(blocks, run) ==
    Parsed(<< [id |-> Uuid4(run, << "typeform", 0, "form" >>),
               fieldsets |-> << >>,
               fields |-> TypeformFields(blocks, 1, run, "typeform")] >>)

\* FormParser.parse_microsoft_form
MicrosoftForm(blocks, run) ==
    Parsed(<< [id |-> Uuid4(run, << "microsoft", 0, "form" >>),
               fieldsets |-> << >>,
               fields |-> TypeformFields(blocks, 1, run, "microsoft")] >>)

ParseGoogleForm ==
    /\ source.provider = "google"
    /\ extracted = << >>
    /\ extracted' = << GoogleForm(source.blocks, 1) >>
    /\ UNCHANGED << appVars, inputs, callVars, toolVars, translateVars, sessionVars,
                    fileVars, source >>

ParseTypeform ==
    /\ source.provider = "typeform"
    /\ extracted = << >>
    /\ extracted' = << Typeform(source.blocks, 1) >>
    /\ UNCHANGED << appVars, inputs, callVars, toolVars, translateVars, sessionVars,
                    fileVars, source >>

ParseMicrosoftForm ==
    /\ source.provider = "microsoft"
    /\ extracted = << >>
    /\ extracted' = << MicrosoftForm(source.blocks, 1) >>
    /\ UNCHANGED << appVars, inputs, callVars, toolVars, translateVars, sessionVars,
                    fileVars, source >>

\* ------------------------------ MultilingualSupport.translate_form_fields
\* The objects of the caller's schema live in heap, a sequence indexed by
\* address: 1 the schema dict, 2 its "forms" list, 3 the form dict, 4 its
\* "fields" list, 5.. the field dicts.  A dict or list entry that is a
\* container holds the address of the container.
SchemaAddr == 1
FormsAddr == SchemaAddr + 1
FormAddr == FormsAddr + 1
FieldsAddr == FormAddr + 1

LabelTexts == {"", "Name"}

\* the "options" list of a field: absent, well-formed, or holding an entry
\* without the key "text"
OptionsCases == {"absent", "ok", "no_text"}

FieldSlots == {1, 2}

English(text) == [lang |-> "en", text |-> text]

FieldDict(label, oc) ==
    [label |-> English(label),
     options_key |-> oc # "absent",
     options |-> IF oc = "absent" THEN << >>
                 ELSE << [text_key |-> oc = "ok", text |-> English("A")] >>,
     translated_label_key |-> FALSE,
     translated_label |-> English(""),
     translated_options_key |-> FALSE,
     translated_options |-> << >>]

\* the heap that holds a schema of one form with the field dicts fs
SchemaHeap(fs) ==
    << [forms |-> FormsAddr], << FormAddr >>, [fields |-> FieldsAddr],
       [k \in 1..Len(fs) |-> FieldsAddr + k] >> \o fs

FieldDicts == {FieldDict(l, oc) : l \in LabelTexts, oc \in OptionsCases}

SchemaHeaps ==
    {SchemaHeap(fs) :
        fs \in {<< >>} \cup UNION {[1..n -> FieldDicts] : n \in FieldSlots}}

\* MultilingualSupport.translate(text, "en", target), lines 111-146; llm_ok:
\* the model call returned a non-empty text
Translate(text, target, llm_ok) ==
    IF text.text = "" \/ target = "en" \/ ~llm_ok THEN text
    ELSE [lang |-> target, text |-> text.text]

\* dict.copy(): a new dict whose entries are those of the old one
DictCopy(h, addr) == Append(h, h[addr])

\* translate_form_fields, lines 168-172
WithTranslatedLabel(field, target, llm_ok) ==
    IF field.label.text # ""
    THEN [field EXCEPT !.translated_label_key = TRUE,
                       !.translated_label =
                           Translate(field.label, target, llm_ok)]
    ELSE field

\* opt["text"] raises KeyError for some entry of the options list
OptionsRaise(field) ==
    field.options_key
       /\ \E k \in 1..Len(field.options) : ~field.options[k].text_key

\* translate_form_fields, lines 173-179
WithTranslatedOptions(field, target, llm_ok) ==
    IF field.options_key
    THEN [field EXCEPT !.translated_options_key = TRUE,
                       !.translated_options =
                           [k \in 1..Len(field.options) |->
                               [text |-> field.options[k].text,
                                translated_text |->
                                   Translate(field.options[k].text, target,
                                             llm_ok)]]]
    ELSE field

\* translate_form_fields, line 165
TranslateCopy ==
    /\ mlpc = "copy"
    /\ heap' = DictCopy(heap, SchemaAddr)
    /\ translated_schema' = Len(heap) + 1
    /\ mlpc' = "fields"
    /\ UNCHANGED << appVars, inputs, callVars, toolVars, extractVars, sessionVars,
                    fileVars,
                    heap0, target_lang, field_pos, returned >>

\* translate_form_fields, lines 166-179: one pass of the loop over the
\* fields reached through translated_schema
TranslateField ==
    /\ mlpc = "fields"
    /\ LET fields == heap[heap[heap[heap[translated_schema].forms][1]].fields]
       IN  /\ field_pos <= Len(fields)
           /\ \E llm_ok \in BOOLEAN :
                 LET addr == fields[field_pos]
                     labelled == WithTranslatedLabel(heap[addr], target_lang,
                                                     llm_ok)
                 IN  IF OptionsRaise(labelled)
                     THEN /\ heap' = [heap EXCEPT ![addr] = labelled]
                          /\ returned' = SchemaAddr
                          /\ mlpc' = "done"
                          /\ UNCHANGED field_pos
                     ELSE /\ heap' = [heap EXCEPT ![addr] =
                                 WithTranslatedOptions(labelled, target_lang,
                                                       llm_ok)]
                          /\ field_pos' = field_pos + 1
                          /\ UNCHANGED << returned, mlpc >>
    /\ UNCHANGED << appVars, inputs, callVars, toolVars, extractVars, sessionVars,
                    fileVars,
                    heap0, target_lang, translated_schema >>

\* translate_form_fields, line 180
TranslateReturn ==
    /\ mlpc = "fields"
    /\ field_pos > Len(heap[heap[heap[heap[translated_schema].forms][1]].fields])
    /\ returned' = translated_schema
    /\ mlpc' = "done"
    /\ UNCHANGED << appVars, inputs, callVars, toolVars, extractVars, sessionVars,
                    fileVars,
                    heap, heap0, target_lang, translated_schema, field_pos >>

\* ------------------------------------------------------- SessionManager
\* session_data holds every session dict that create_session built, by
\* session id (the n-th token of _generate_session_id is n);
\* active_sessions holds the ids that are keys of self.active_sessions.
session_timeout_hours == 24

\* hours between two readings of datetime.now() that differ by one
TickHours == 12

\* an id that no create_session call generated
UnknownId == 0

\* the tokens that _generate_session_id returns, in this order
SessionTokens == {1, 2}

SessionIds == {UnknownId} \cup SessionTokens

NoReturn == [op |-> "none", id |-> 0, data |-> FALSE, db_failed |-> FALSE]

Return(op, id, data, db_failed) ==
    [op |-> op, id |-> id, data |-> data, db_failed |-> db_failed]

\* create_session, lines 96-110
NewSessionData ==
    [last_activity |-> now, active |-> TRUE]

\* _is_session_expired as it would be with >= for >
IsSessionExpiredEarly(session) ==
    (now - session.last_activity) * TickHours >= session_timeout_hours

\* SessionManager._is_session_expired
IsSessionExpired(session) ==
    (now - session.last_activity) * TickHours > session_timeout_hours

\* SessionManager._expire_session on the dicts
ExpireAll(ids) ==
    [i \in 1..Len(session_data) |->
        IF i \in ids \cap active_sessions
        THEN [session_data[i] EXCEPT !.active = FALSE]
        ELSE session_data[i]]

Touched(id) == [session_data EXCEPT ![id].last_activity = now]

\* SessionManager.create_session; db_ok: create_user_session works,
\* lookup_ok: get_user_by_session works
CreateSession ==
    /\ Len(session_data) < Cardinality(SessionTokens)
    /\ \E db_ok \in BOOLEAN, lookup_ok \in BOOLEAN :
          LET session_id == Len(session_data) + 1
          IN  IF ~db_ok
              THEN /\ ret' = Return("create", UnknownId, FALSE, TRUE)
                   /\ UNCHANGED << session_data, active_sessions,
                                   returned_ids >>
              ELSE /\ session_data' = Append(session_data, NewSessionData)
                   /\ active_sessions' = active_sessions \cup {session_id}
                   /\ IF lookup_ok
                      THEN /\ returned_ids' = returned_ids \cup {session_id}
                           /\ ret' = Return("create", session_id, TRUE, FALSE)
                      ELSE /\ returned_ids' = returned_ids
                           /\ ret' = Return("create", UnknownId, FALSE, TRUE)
    /\ UNCHANGED << appVars, inputs, callVars, toolVars, extractVars, translateVars,
                    fileVars,
                    terminated_ids, now >>

\* the body of get_session: new dicts, new key set, value returned
GetSessionEffect(id, db_ok) ==
    IF id \notin active_sessions
    THEN [data |-> session_data, keys |-> active_sessions, found |-> FALSE]
    ELSE IF IsSessionExpired(session_data[id])
    THEN [data |-> ExpireAll({id}), keys |-> active_sessions \ {id},
          found |-> FALSE]
    ELSE [data |-> Touched(id), keys |-> active_sessions, found |-> db_ok]

\* SessionManager.get_session; db_ok: update_user_activity works
GetSession(id) ==
    \E db_ok \in BOOLEAN :
       LET eff == GetSessionEffect(id, db_ok)
       IN  /\ session_data' = eff.data
           /\ active_sessions' = eff.keys
           /\ ret' = Return("get", id, eff.found, ~db_ok)
           /\ UNCHANGED << appVars, inputs, callVars, toolVars, extractVars,
                           translateVars, fileVars, returned_ids, terminated_ids, now >>

\* SessionManager.update_session with keys that are not protected;
\* db_ok: update_user_activity works
UpdateSession(id) ==
    \E db_ok \in BOOLEAN :
       LET eff == GetSessionEffect(id, db_ok)
       IN  /\ active_sessions' = eff.keys
           /\ session_data' = eff.data
           /\ ret' = Return("update", id, eff.found, ~db_ok)
           /\ UNCHANGED << appVars, inputs, callVars, toolVars, extractVars,
                           translateVars, fileVars, returned_ids, terminated_ids, now >>

\* SessionManager.terminate_session
TerminateSession(id) ==
    /\ IF id \in active_sessions
       THEN /\ session_data' = ExpireAll({id})
            /\ active_sessions' = active_sessions \ {id}
            /\ terminated_ids' = terminated_ids \cup {id}
            /\ ret' = Return("terminate", id, TRUE, FALSE)
       ELSE /\ ret' = Return("terminate", id, FALSE, FALSE)
            /\ UNCHANGED << session_data, active_sessions, terminated_ids >>
    /\ UNCHANGED << appVars, inputs, callVars, toolVars, extractVars, translateVars,
                    fileVars,
                    returned_ids, now >>

\* SessionManager.cleanup_expired_sessions; db_ok: cleanup_old_sessions
\* works
CleanupExpiredSessions ==
    \E db_ok \in BOOLEAN :
       LET expired_sessions ==
               {i \in active_sessions : IsSessionExpired(session_data[i])}
       IN  /\ session_data' = ExpireAll(expired_sessions)
           /\ active_sessions' = active_sessions \ expired_sessions
           /\ ret' = Return("cleanup", UnknownId, db_ok, ~db_ok)
           /\ UNCHANGED << appVars, inputs, callVars, toolVars, extractVars,
                           translateVars, fileVars, returned_ids, terminated_ids, now >>

\* datetime.now() moves on
Tick ==
    /\ now < MaxClock
    /\ now' = now + 1
    /\ UNCHANGED << appVars, inputs, callVars, toolVars, extractVars, translateVars,
                    fileVars,
                    session_data, active_sessions, returned_ids,
                    terminated_ids, ret >>

\* ------------------------------------ FormAutofiller._get_field_selector
\* A field dict as _get_field_selector reads it: id, name, label and type,
\* where None stands for a missing key.  A selector is
\* << strategy, first value formatted into it, second value >>.
NoDescriptor == [id |-> None, name |-> None, label |-> None, type |-> None]

NoSelector == << "none", "", "" >>

SelectorTypes ==
    {"text", "textarea", "select", "dropdown", "multiple_choice", "checkbox"}

Descriptors ==
    { [id |-> i, name |-> n, label |-> l, type |-> t] :
        i \in {None, "", "a"}, n \in {None, "", "n"}, l \in {None, "", "L"},
        t \in SelectorTypes }

\* bool(x) of a value that is None or a str
Truthy(x) == x \notin {None, ""}

\* FormAutofiller._get_field_selector
GetFieldSelector(field) ==
    IF field.type \in {"multiple_choice", "dropdown"}
    THEN << "role", field.id, field.name >>
    ELSE IF Truthy(field.id) THEN << "id", field.id, "" >>
    ELSE IF Truthy(field.name) THEN << "name", field.name, "" >>
    ELSE IF Truthy(field.label) THEN << "label", field.label, "" >>
    ELSE IF field.type \in {"select", "textarea"}
    THEN << "tag", field.type, "" >>
    ELSE << "input_type", field.type, "" >>

\* _map_responses_to_fields asks for the selector of a field
GetFieldSelectorCall ==
    /\ selector = NoSelector
    /\ descriptor # NoDescriptor
    /\ selector' = GetFieldSelector(descriptor)
    /\ UNCHANGED << inputs, callVars, toolVars, extractVars, translateVars,
                    sessionVars, fileVars, serverVars, convVars, descriptor >>

\* ------------------------------------------- the tools of server.py
\* The session handling at the head of parse_form and start_conversation,
\* on the SessionManager of the server process; the database calls work.
\* The session_id argument when the client sends none
NotProvided == 0 - 1

\* the row ids that save_form and llm_conv.start_conversation return
RowIds == {1, 2}

\* create_session: current_form_id and current_conversation_id are None (0)
NoCurrent == [current_form_id |-> 0, current_conversation_id |-> 0]

NoResponse ==
    [tool |-> "none", given |-> NotProvided, session_id |-> NotProvided,
     status |-> "none", form_id |-> 0, conversation_id |-> 0, created |-> 0]

\* self.active_sessions of the session manager, as a value
SessionStore ==
    [data |-> session_data, keys |-> active_sessions,
     current |-> session_current]

\* create_session on a store; the id of the new session is Len(data)
StoreCreate(st) ==
    [data |-> Append(st.data, NewSessionData),
     keys |-> st.keys \cup {Len(st.data) + 1},
     current |-> Append(st.current, NoCurrent)]

\* get_session on a store
StoreGet(st, id) ==
    IF id \notin st.keys THEN [store |-> st, found |-> FALSE]
    ELSE IF IsSessionExpired(st.data[id])
    THEN [store |-> [st EXCEPT !.data[id].active = FALSE,
                               !.keys = @ \ {id}],
          found |-> FALSE]
    ELSE [store |-> [st EXCEPT !.data[id].last_activity = now],
          found |-> TRUE]

\* update_session(id, {key: value}), what set_current_form and
\* set_current_conversation call
StoreUpdate(st, id, key, value) ==
    LET got == StoreGet(st, id)
    IN  IF got.found
        THEN [got.store EXCEPT !.current[id][key] = value]
        ELSE got.store

\* server.py 151-167 and 488-499: get_session(session_id) and, when it
\* returns None, create_session; session_id is not assigned again
EnsureSession(st, session_id) ==
    LET got == StoreGet(st, session_id)
    IN  IF got.found THEN [store |-> got.store, created |-> 0]
        ELSE [store |-> StoreCreate(got.store), created |-> 1]

\* the call creates a session
NeedsSession(sid) == sid = NotProvided \/ sid \notin active_sessions

\* the ids create_session returned, after a call that created n sessions
ReturnedAfter(n) ==
    returned_ids \cup ((Len(session_data) + 1)..(Len(session_data) + n))

\* the parse_form tool called with session_id = sid; outcome: whether the
\* validation, the extraction and save_form went through
ParseFormTool(sid) ==
    /\ NeedsSession(sid) => Len(session_data) < Cardinality(SessionTokens)
    /\ \E outcome \in {"error", "success"}, form_id \in RowIds :
          LET first == IF sid = NotProvided THEN StoreCreate(SessionStore)
                       ELSE SessionStore
              session_id == IF sid = NotProvided THEN Len(first.data)
                            ELSE sid
              ensured == EnsureSession(first, session_id)
              last == IF outcome = "success"
                      THEN StoreUpdate(ensured.store, session_id,
                                       "current_form_id", form_id)
                      ELSE ensured.store
              created == Len(last.data) - Len(session_data)
          IN  /\ outcome = "error" => form_id = 1
              /\ session_data' = last.data
              /\ active_sessions' = last.keys
              /\ session_current' = last.current
              /\ returned_ids' = ReturnedAfter(created)
              /\ tool_response' =
                    [tool |-> "parse_form", given |-> sid,
                     session_id |-> session_id, status |-> outcome,
                     form_id |-> IF outcome = "success" THEN form_id ELSE 0,
                     conversation_id |-> 0, created |-> created]
              /\ client_ids' = client_ids \cup {session_id}
              /\ ret' = Return("tool", session_id,
                               session_id \in last.keys, FALSE)
    /\ UNCHANGED << inputs, callVars, toolVars, extractVars, translateVars,
                    fileVars, selectorVars, convVars, terminated_ids, now >>

\* the start_conversation tool called with session_id = sid; outcome:
\* whether llm_conv.start_conversation returned a conversation id
StartConversationTool(sid) ==
    /\ NeedsSession(sid) => Len(session_data) < Cardinality(SessionTokens)
    /\ \E outcome \in {"error", "success"}, conversation_id \in RowIds :
          LET ensured == EnsureSession(SessionStore, sid)
              last == IF outcome = "success"
                      THEN StoreUpdate(ensured.store, sid,
                                       "current_conversation_id",
                                       conversation_id)
                      ELSE ensured.store
              created == Len(last.data) - Len(session_data)
          IN  /\ outcome = "error" => conversation_id = 1
              /\ session_data' = last.data
              /\ active_sessions' = last.keys
              /\ session_current' = last.current
              /\ returned_ids' = ReturnedAfter(created)
              /\ tool_response' =
                    [tool |-> "start_conversation", given |-> sid,
                     session_id |-> IF outcome = "success" THEN sid
                                    ELSE NotProvided,
                     status |-> outcome, form_id |-> 0,
                     conversation_id |-> IF outcome = "success"
                                         THEN conversation_id ELSE 0,
                     created |-> created]
              /\ client_ids' = IF outcome = "success"
                               THEN client_ids \cup {sid} ELSE client_ids
              /\ ret' = Return("tool", sid, sid \in last.keys, FALSE)
    /\ UNCHANGED << inputs, callVars, toolVars, extractVars, translateVars,
                    fileVars, selectorVars, convVars, terminated_ids, now >>

\* ------------------------------------------ submit_user_response
\* The rows of one conversation in the database that the server
\* processes share.  bridge.py starts one server process per request; each
\* database call of the tool is a transaction of its own.
Procs == {1, 2}

NoConversation == [current_field_index |-> 0, conversation_status |-> "none"]

\* the row that create_conversation inserts
NewConversation ==
    [current_field_index |-> 0, conversation_status |-> "active"]

\* server.py 771-781: get_conversation, get_form_fields and the test of
\* current_index against len(form_fields)
GetConversation(p) ==
    /\ spc[p] = "idle"
    /\ current_index' =
          [current_index EXCEPT ![p] = conversation.current_field_index]
    /\ spc' = [spc EXCEPT ![p] =
                  IF conversation.current_field_index >= form_fields
                  THEN "idle" ELSE "save"]
    /\ UNCHANGED << inputs, callVars, toolVars, extractVars, translateVars,
                    sessionVars, fileVars, selectorVars, serverVars,
                    form_fields, conversation, user_responses >>

\* server.py 796-802: db_manager.save_user_response
SaveUserResponse(p) ==
    /\ spc[p] = "save"
    /\ user_responses' = user_responses + 1
    /\ spc' = [spc EXCEPT ![p] = "update"]
    /\ UNCHANGED << inputs, callVars, toolVars, extractVars, translateVars,
                    sessionVars, fileVars, selectorVars, serverVars,
                    form_fields, conversation, current_index >>

\* server.py 805-808: update_conversation_progress(current_index + 1) and
\* the test that decides on complete_conversation
UpdateConversationProgress(p) ==
    /\ spc[p] = "update"
    /\ conversation' =
          [conversation EXCEPT !.current_field_index = current_index[p] + 1]
    /\ spc' = [spc EXCEPT ![p] =
                  IF current_index[p] + 1 >= form_fields
                  THEN "complete" ELSE "idle"]
    /\ UNCHANGED << inputs, callVars, toolVars, extractVars, translateVars,
                    sessionVars, fileVars, selectorVars, serverVars,
                    form_fields, user_responses, current_index >>

\* server.py 809: db_manager.complete_conversation
CompleteConversation(p) ==
    /\ spc[p] = "complete"
    /\ conversation' =
          [conversation EXCEPT !.conversation_status = "completed"]
    /\ spc' = [spc EXCEPT ![p] = "idle"]
    /\ UNCHANGED << inputs, callVars, toolVars, extractVars, translateVars,
                    sessionVars, fileVars, selectorVars, serverVars,
                    form_fields, user_responses, current_index >>

\* --------------------------------- _capture_screenshot and _save_logs
\* The files of SCREENSHOT_DIR and LOG_DIR.  clock counts half seconds;
\* each of the calls runs autofill_form on a form of one field and up to
\* two pages, and wstep is its position between the file writes.
TicksPerSecond == 2

\* datetime.now().strftime("%Y%m%d_%H%M%S"): the clock cut to the second
Timestamp(t) == t \div TicksPerSecond

\* os.path.join(SCREENSHOT_DIR, f"{prefix}_{timestamp}.png")
ScreenshotPath(prefix, t) == << "screenshots", prefix, Timestamp(t) >>

\* os.path.join(LOG_DIR, f"autofill_{timestamp}.json")
LogPath(t) == << "logs", "autofill", Timestamp(t) >>

\* page.screenshot(path=...) and open(log_file, "w"): the file is created,
\* or truncated and written again when it exists
WriteFile(path) ==
    /\ written' = written \cup {path}
    /\ clobbered' = IF path \in written THEN clobbered \cup {path}
                    ELSE clobbered

\* the write raised before the file was opened
NoWrite == UNCHANGED << written, clobbered >>

\* _fill_form_fields, lines 179-210, for the one field: the input action
\* works, or raises and "field_error_{field_id}" is captured
FillAndCapture(c) ==
    /\ wstep[c] \in {"field", "field2"}
    /\ \E raised \in BOOLEAN, ok \in BOOLEAN :
          IF raised /\ ok THEN WriteFile(ScreenshotPath("field_error_1", clock))
          ELSE NoWrite
    /\ wstep' = [wstep EXCEPT ![c] = IF wstep[c] = "field" THEN "next"
                                     ELSE "final"]
    /\ UNCHANGED << appVars, inputs, callVars, toolVars, extractVars, translateVars,
                    sessionVars, clock >>

\* _fill_form_fields, lines 212-220: no next control, or the click and the
\* "page_{current_page}" capture
NextAndCapture(c) ==
    /\ wstep[c] = "next"
    /\ \E found \in BOOLEAN, ok \in BOOLEAN :
          /\ IF found /\ ok THEN WriteFile(ScreenshotPath("page_1", clock))
             ELSE NoWrite
          /\ wstep' = [wstep EXCEPT ![c] = IF found THEN "field2"
                                           ELSE "final"]
    /\ UNCHANGED << appVars, inputs, callVars, toolVars, extractVars, translateVars,
                    sessionVars, clock >>

\* autofill_form, line 102 or line 112: the "final" or the "error" capture
FinalCapture(c) ==
    /\ wstep[c] = "final"
    /\ \E prefix \in {"final", "error"}, ok \in BOOLEAN :
          IF ok THEN WriteFile(ScreenshotPath(prefix, clock)) ELSE NoWrite
    /\ wstep' = [wstep EXCEPT ![c] = "log"]
    /\ UNCHANGED << appVars, inputs, callVars, toolVars, extractVars, translateVars,
                    sessionVars, clock >>

\* autofill_form, line 105 or line 114: _save_logs
SaveLogFile(c) ==
    /\ wstep[c] = "log"
    /\ \E ok \in BOOLEAN :
          IF ok THEN WriteFile(LogPath(clock)) ELSE NoWrite
    /\ wstep' = [wstep EXCEPT ![c] = "done"]
    /\ UNCHANGED << appVars, inputs, callVars, toolVars, extractVars, translateVars,
                    sessionVars, clock >>

\* half a second passes
ClockTick ==
    /\ clock < MaxTicks
    /\ clock' = clock + 1
    /\ UNCHANGED << appVars, inputs, callVars, toolVars, extractVars, translateVars,
                    sessionVars, wstep, written, clobbered >>

\* ========================================================= specifications
InitCall ==
    /\ pc = "start"
    /\ mappings = << >>
    /\ idx = 1
    /\ current_page = 0
    /\ result = NewResult
    /\ visited = {}
    /\ issued = {}
    /\ failed = << >>
    /\ faults = {}
    /\ submitCalled = FALSE
    /\ logged = NoLog

InitInputs ==
    /\ \E ts \in TypeSeqs : schema = SchemaOf(ts)
    /\ \E cs \in [1..Len(schema) -> ResponseCases] :
          responses = ResponsesUpTo(cs, Len(schema))
    /\ shotOk \in BOOLEAN
    /\ logOk \in BOOLEAN

\* no tool call is under way
ToolOff ==
    /\ autofiller = NoSession
    /\ parser = NoSession
    /\ open = {}
    /\ tpc = [c \in Calls |-> "off"]
    /\ xpc = "off"
    /\ ops = {}
    /\ profileExists = TRUE
    /\ parserProfile = FALSE

\* no document was handed to the extraction engine
NoDocument == [form |-> FALSE, controls |-> << >>, raises |-> 0]

ExtractOff ==
    /\ source = [provider |-> "none", doc |-> NoDocument, blocks |-> << >>]
    /\ extracted = << >>

\* translate_form_fields is not under way
TranslateOff ==
    /\ heap = << >>
    /\ heap0 = << >>
    /\ target_lang = "en"
    /\ mlpc = "off"
    /\ translated_schema = 0
    /\ field_pos = 1
    /\ returned = 0

\* SessionManager.__init__ and _load_active_sessions
SessionOff ==
    /\ session_data = << >>
    /\ active_sessions = {}
    /\ returned_ids = {}
    /\ terminated_ids = {}
    /\ now = 0
    /\ ret = NoReturn

\* no autofill call writes files
FileOff ==
    /\ clock = 0
    /\ wstep = [c \in Calls |-> "off"]
    /\ written = {}
    /\ clobbered = {}

\* _get_field_selector is not under way
SelectorOff ==
    /\ descriptor = NoDescriptor
    /\ selector = NoSelector

\* no server tool was called
ServerOff ==
    /\ session_current = << >>
    /\ tool_response = NoResponse
    /\ client_ids = {}

\* no conversation is in the database
ConvOff ==
    /\ form_fields = 0
    /\ conversation = NoConversation
    /\ user_responses = 0
    /\ spc = [p \in Procs |-> "off"]
    /\ current_index = [p \in Procs |-> 0]

AppOff == SelectorOff /\ ServerOff /\ ConvOff

LibOff == ExtractOff /\ TranslateOff /\ SessionOff /\ FileOff /\ AppOff

Init == InitInputs /\ sticky = FALSE /\ InitCall /\ ToolOff /\ LibOff

Next ==
    \/ Navigate
    \/ FillField
    \/ FindNext
    \/ SubmitForm
    \/ Finalize
    \/ HandleError

Spec == Init /\ [][Next]_vars

\* the target may show a next/continue control after every click; every
\* step of the call is an awaited coroutine that the event loop resumes
LiveInit == InitInputs /\ sticky = TRUE /\ InitCall /\ ToolOff /\ LibOff

LiveSpec == LiveInit /\ [][Next]_vars /\ WF_vars(Next)

\* the server process after start-up: the module-level FormAutofiller() has
\* no session yet; the calls are stepped at their awaits, not inside
\* autofill_form
ToolInit ==
    /\ schema = << >>
    /\ responses = << >>
    /\ shotOk = TRUE
    /\ logOk = TRUE
    /\ sticky = FALSE
    /\ pc = "off"
    /\ mappings = << >>
    /\ idx = 1
    /\ current_page = 0
    /\ result = NewResult
    /\ visited = {}
    /\ issued = {}
    /\ failed = << >>
    /\ faults = {}
    /\ submitCalled = FALSE
    /\ logged = NoLog
    /\ autofiller = NoSession
    /\ parser = NoSession
    /\ open = {}
    /\ tpc = [c \in Calls |-> "idle"]
    /\ xpc = "init_start"
    /\ ops = {}
    /\ profileExists \in BOOLEAN
    /\ \E use_profile \in BOOLEAN, exists \in BOOLEAN :
          parserProfile = ChromeProfilePath(use_profile, exists)
    /\ LibOff

ToolNext ==
    \/ \E c \in Calls : ToolEnter(c)
    \/ \E c \in Calls : InitStart(c)
    \/ \E c \in Calls : InitLaunch(c)
    \/ \E c \in Calls : InitPage(c)
    \/ \E c \in Calls : ToolGoto(c)
    \/ \E c \in Calls : ToolFill(c)
    \/ \E c \in Calls : CloseContext(c)
    \/ \E c \in Calls : StopPlaywright(c)
    \/ ParserStart
    \/ ParserProfile
    \/ ParserBrowser
    \/ ParserContext
    \/ ParserPage
    \/ ParserParse
    \/ ParserCloseContext
    \/ ParserStop

ToolSpec == ToolInit /\ [][ToolNext]_vars

\* the fill call and the tool calls are not under way
FillOff ==
    /\ schema = << >>
    /\ responses = << >>
    /\ shotOk = TRUE
    /\ logOk = TRUE
    /\ sticky = FALSE
    /\ pc = "off"
    /\ mappings = << >>
    /\ idx = 1
    /\ current_page = 0
    /\ result = NewResult
    /\ visited = {}
    /\ issued = {}
    /\ failed = << >>
    /\ faults = {}
    /\ submitCalled = FALSE
    /\ logged = NoLog

\* one static document, parsed up to twice by FormParser.parse_html, or
\* one provider page, parsed by the parser of the provider
ExtractInit ==
    /\ FillOff
    /\ AppOff
    /\ ToolOff
    /\ TranslateOff
    /\ SessionOff
    /\ FileOff
    /\ \/ \E doc \in Documents :
             source = [provider |-> "html", doc |-> doc, blocks |-> << >>]
       \/ \E p \in {"google", "typeform", "microsoft"}, blocks \in Pages :
             source = [provider |-> p, doc |-> NoDocument, blocks |-> blocks]
    /\ extracted = << >>

ExtractNext ==
    \/ ParseHtmlCall
    \/ ParseGoogleForm
    \/ ParseTypeform
    \/ ParseMicrosoftForm

ExtractSpec == ExtractInit /\ [][ExtractNext]_vars

\* the autofill_form tool hands its form_schema argument to
\* translate_form_fields
TranslateInit ==
    /\ FillOff
    /\ AppOff
    /\ ToolOff
    /\ ExtractOff
    /\ SessionOff
    /\ FileOff
    /\ heap \in SchemaHeaps
    /\ heap0 = heap
    /\ target_lang \in {"en", "es"}
    /\ mlpc = "copy"
    /\ translated_schema = 0
    /\ field_pos = 1
    /\ returned = 0

TranslateNext ==
    \/ TranslateCopy
    \/ TranslateField
    \/ TranslateReturn

TranslateSpec == TranslateInit /\ [][TranslateNext]_vars

\* the ids a caller can pass: those create_session returned to it, or a
\* string that is no session token
KnownIds == {UnknownId} \cup returned_ids

\* a server process right after SessionManager() was built
SessionInit ==
    /\ FillOff
    /\ AppOff
    /\ ToolOff
    /\ ExtractOff
    /\ TranslateOff
    /\ FileOff
    /\ SessionOff

SessionNext ==
    \/ CreateSession
    \/ \E id \in KnownIds : GetSession(id)
    \/ \E id \in KnownIds : UpdateSession(id)
    \/ \E id \in KnownIds : TerminateSession(id)
    \/ CleanupExpiredSessions
    \/ Tick

SessionSpec == SessionInit /\ [][SessionNext]_vars

\* the autofill calls of a server process whose screenshot and log
\* directories are empty
FileInit ==
    /\ FillOff
    /\ AppOff
    /\ ToolOff
    /\ ExtractOff
    /\ TranslateOff
    /\ SessionOff
    /\ clock = 0
    /\ wstep = [c \in Calls |-> "field"]
    /\ written = {}
    /\ clobbered = {}

FileNext ==
    \/ \E c \in Calls : FillAndCapture(c)
    \/ \E c \in Calls : NextAndCapture(c)
    \/ \E c \in Calls : FinalCapture(c)
    \/ \E c \in Calls : SaveLogFile(c)
    \/ ClockTick

FileSpec == FileInit /\ [][FileNext]_vars

\* one field dict of a schema handed to autofill_form
SelectorInit ==
    /\ FillOff
    /\ ToolOff
    /\ ExtractOff
    /\ TranslateOff
    /\ SessionOff
    /\ FileOff
    /\ ServerOff
    /\ ConvOff
    /\ descriptor \in Descriptors
    /\ selector = NoSelector

SelectorNext == GetFieldSelectorCall

SelectorSpec == SelectorInit /\ [][SelectorNext]_vars

\* what a client can send as session_id: nothing, a string that is no
\* session token, or an id that a response gave it
ClientSessionIds == {NotProvided, UnknownId} \cup client_ids

\* a server process right after start, and a client without a session id
ServerInit ==
    /\ FillOff
    /\ ToolOff
    /\ ExtractOff
    /\ TranslateOff
    /\ FileOff
    /\ SessionOff
    /\ SelectorOff
    /\ ConvOff
    /\ ServerOff

ServerNext ==
    \/ \E sid \in ClientSessionIds : ParseFormTool(sid)
    \/ \E sid \in ClientSessionIds \ {NotProvided} :
          StartConversationTool(sid)

ServerSpec == ServerInit /\ [][ServerNext]_vars

\* a conversation that start_conversation has just created on a form of
\* one field or more, and the submit_user_response calls on it
ConvInit ==
    /\ FillOff
    /\ ToolOff
    /\ ExtractOff
    /\ TranslateOff
    /\ FileOff
    /\ SessionOff
    /\ SelectorOff
    /\ ServerOff
    /\ form_fields \in 1..MaxFields
    /\ conversation = NewConversation
    /\ user_responses = 0
    /\ spc = [p \in Procs |-> "idle"]
    /\ current_index = [p \in Procs |-> 0]

ConvNext ==
    \/ \E p \in Procs : GetConversation(p)
    \/ \E p \in Procs : SaveUserResponse(p)
    \/ \E p \in Procs : UpdateConversationProgress(p)
    \/ \E p \in Procs : CompleteConversation(p)

ConvSpec == ConvInit /\ [][ConvNext]_vars

TypeOK ==
    /\ pc \in {"off", "start", "fields", "next", "submit", "final", "error",
              "done"}
    /\ idx \in 1..MaxFields
    /\ current_page \in 0..MaxPages
    /\ result.status \in {"success", "error"}


\* ================================================================= claims
\* the call got past page.goto (it is in, or through, _fill_form_fields)
Navigated == pc \in {"fields", "next", "submit", "final"}
                \/ (pc = "done" /\ "nav" \notin faults)

Returned == pc = "done"

IsFieldError(e) == e[1] \in {"no_value", "unsupported", "fill_failed"}

Elements(s) == {s[k] : k \in 1..Len(s)}

\* the loop over page p has reached position i
Reached(p, i) == p < current_page \/ pc # "fields" \/ i < idx

\* C1: a field that fails (no value, unsupported type, exception of the
\* input action) does not end the page: on every page the loop reaches
\* every field of the mappings, and each failure is in result.errors, in
\* the order the failures happened.
C1_FieldFailureNeverStopsPage ==
    Navigated =>
        /\ \A p \in 0..current_page : \A i \in 1..Len(mappings) :
              Reached(p, i) => << p, i >> \in visited
        /\ SelectSeq(result.errors, IsFieldError) = failed

\* C1 witness: the first field failed with an exception on the first page
\* and the second field was attempted after it on that page.
C1_Witness ==
    /\ pc = "next"
    /\ current_page = 0
    /\ Len(mappings) = 2
    /\ failed # << >>
    /\ failed[1] = << "fill_failed", 1 >>
    /\ << 0, 2 >> \in visited

\* C2: status is "error" only after an exception reached the outer except
\* clause (page.goto failed); a call in which only fields, the click of the
\* next control or the submission failed returns "success" with errors not
\* empty; no step of the call leaves it by an exception.
C2_ErrorStatusOnlyFromOuterHandler ==
    /\ pc # "raised"
    /\ result.status = "error" => "nav" \in faults
    /\ (Returned /\ "nav" \notin faults /\ (faults # {} \/ failed # << >>))
          => (result.status = "success" /\ result.errors # << >>)

\* C2 witness: a returned call whose only failure was the click of the
\* next control.
C2_Witness ==
    /\ Returned
    /\ faults = {"click"}
    /\ failed = << >>
    /\ result.status = "success"

\* the response entries given for field id f
EntriesFor(f) ==
    {k \in 1..Len(responses) : responses[k].field_id = f}

OnlyInvalidEntries(f) ==
    /\ EntriesFor(f) # {}
    /\ \A k \in EntriesFor(f) : ~responses[k].valid

\* C5: an entry with valid = false never drives an input action: every
\* issued fill/select/click carries the value of a valid entry of its
\* field, a field that has only invalid entries gets no input action on
\* any page, and once the loop has passed it the error for it is recorded.
C5_InvalidEntryNeverUsed ==
    /\ \A a \in issued : \E k \in EntriesFor(a[1]) :
          responses[k].valid /\ responses[k].value = a[2]
    /\ \A i \in 1..Len(schema) :
          OnlyInvalidEntries(schema[i].id) =>
             /\ \A a \in issued : a[1] # schema[i].id
             /\ (Navigated /\ Reached(0, i)) =>
                   << "no_value", schema[i].label >> \in Elements(result.errors)

\* C5 witness: a returned call on a two-page form whose first field has an
\* entry with valid = false, while another field was filled.
C5_Witness ==
    /\ Returned
    /\ current_page = 1
    /\ OnlyInvalidEntries(schema[1].id)
    /\ << "no_value", schema[1].label >> \in Elements(result.errors)
    /\ issued # {}

ValidValue(m) ==
    /\ FieldBranch(m) = "action"
    /\ IssuesAction(Dispatch(m.field.type), m.value, m.field.options)

\* fields of the schema that have no response entry at all
Omitted == {i \in 1..Len(schema) : EntriesFor(schema[i].id) = {}}

\* C3: with a valid value for each of the N fields, every input action
\* succeeding, every click of a next control succeeding and the submit
\* control found, the call returns N filled fields and no error, whatever
\* the number of pages.
C3_AllFieldsFilledOnce ==
    (/\ Returned
     /\ faults = {}
     /\ \A i \in 1..Len(mappings) : ValidValue(mappings[i]))
        => /\ Len(result.filled_fields) = Len(schema)
           /\ result.errors = << >>

\* C4: with the entry of exactly one field left out and every other field
\* valid and fillable, the call returns (status "success"), errors names
\* the field left out, and N-1 fields are filled.
C4_OneOmittedField ==
    (/\ Returned
     /\ faults = {}
     /\ Cardinality(Omitted) = 1
     /\ \A i \in 1..Len(mappings) : i \in Omitted \/ ValidValue(mappings[i]))
        => /\ result.status = "success"
           /\ \A i \in Omitted :
                 << "no_value", schema[i].label >> \in Elements(result.errors)
           /\ Len(result.filled_fields) = Len(schema) - 1

\* C8: once an extraction call or an autofill tool call has returned or
\* raised, no driver, browser or context that it acquired is running.
C8_NoSessionLeftOpen ==
    /\ \A c \in Calls :
          tpc[c] = "done" => \A h \in open : Owner(h) # c
    /\ xpc = "done" => \A h \in open : Owner(h) # ExtractId

\* C9: of two overlapping autofill tool calls, each one navigates, fills,
\* closes and replaces only handles it acquired itself: no operation of a
\* call is on a handle of the other call while that call is under way.
C9_CallsUseOwnSessionOnly ==
    \A e \in ops : e[3] # e[1] => ~e[4]

\* C10: every autofill_form call eventually returns, also on a target that
\* shows a visible next/continue control after each click.
C10_CallEventuallyReturns == <>(pc = "done")

\* C11: a missing Chrome profile directory never fails a call: once the
\* Playwright driver of an autofill call has started, initialize goes on to
\* launch a context although the directory is missing, and the extraction
\* session goes on to launch one as well
C11_MissingProfileFallsBack ==
    [][ /\ \A c \in Calls :
             (tpc[c] = "init_start" /\ ~profileExists
                 /\ << "driver", c, c >> \in open')
                => tpc'[c] # "close"
        /\ (xpc = "init_start"
                 /\ << "driver", ExtractId, ExtractId >> \in open')
                => xpc' # "close" ]_vars

\* every field descriptor of a form record, top-level and of its fieldsets
RECURSIVE FieldsetFields(_)
FieldsetFields(fss) ==
    IF fss = << >> THEN << >>
    ELSE Head(fss).fields \o FieldsetFields(Head(fss).fieldsets)
            \o FieldsetFields(Tail(fss))

FormFields(form) == form.fields \o FieldsetFields(form.fieldsets)

ExtractedForms == UNION {SeqElems(extracted[k].forms) : k \in 1..Len(extracted)}

\* C12: no two field descriptors of an extracted form have the same id
C12_FieldIdsUnique ==
    \A form \in ExtractedForms :
       \A i, j \in 1..Len(FormFields(form)) :
          i # j => FormFields(form)[i].id # FormFields(form)[j].id

ExtractedFields == UNION {SeqElems(FormFields(form)) : form \in ExtractedForms}

\* C13: no two entries of the options of an extracted field have the same
\* text
C13_OptionTextsUnique ==
    \A f \in ExtractedFields :
       \A i, j \in 1..Len(f.options) :
          i # j => f.options[i].text # f.options[j].text

\* the document is one form with one control, a required email input
OneRequiredEmail ==
    /\ source.provider = "html"
    /\ source.doc.form
    /\ source.doc.raises = 0
    /\ Len(source.doc.controls) = 1
    /\ source.doc.controls[1].kind.tag = "input"
    /\ source.doc.controls[1].kind.type = "email"
    /\ source.doc.controls[1].kind.required

\* C14: parse_html of a document with one form and one control, a required
\* email input anywhere inside the form, returns exactly one field
\* descriptor, of type "email" and required
C14_OneRequiredEmailField ==
    OneRequiredEmail =>
       \A k \in 1..Len(extracted) :
          /\ extracted[k].status = "ok"
          /\ Len(extracted[k].forms) = 1
          /\ LET fs == FormFields(extracted[k].forms[1])
             IN  /\ Len(fs) = 1
                 /\ fs[1].type = "email"
                 /\ fs[1].required

\* what two field descriptors must have in common
SameButId(f, g) ==
    /\ f.label = g.label
    /\ f.type = g.type
    /\ f.required = g.required
    /\ f.has_options = g.has_options
    /\ f.options = g.options

\* C15: two parse_html runs on the same document return fields that agree
\* on label, type, required flag and options
C15_ReparseAgrees ==
    (source.provider = "html" /\ Len(extracted) = 2) =>
       /\ extracted[1].status = extracted[2].status
       /\ Len(extracted[1].forms) = Len(extracted[2].forms)
       /\ \A n \in 1..Len(extracted[1].forms) :
             LET fs == FormFields(extracted[1].forms[n])
                 gs == FormFields(extracted[2].forms[n])
             IN  /\ Len(fs) = Len(gs)
                 /\ \A k \in 1..Len(fs) : SameButId(fs[k], gs[k])

\* the field descriptor of question container q is in the schema
Emitted(res, q) ==
    \E f \in SeqElems(res.forms[1].fields) : f.id[4][2] = q

\* C16: an exception in the processing of one container or element never
\* makes the extraction call raise, and the containers that raise nothing
\* still get their field descriptors
C16_FieldErrorIsLocal ==
    \A k \in 1..Len(extracted) :
       /\ extracted[k].status = "ok"
       /\ source.provider # "html" =>
             \A q \in 1..Len(source.blocks) :
                (source.blocks[q].raises = "none"
                    /\ ~HasOtherRadio(source.blocks[q]))
                   => Emitted(extracted[k], q)

\* C17: when translate_form_fields has returned, every object of the
\* caller's schema is what it was when the call was made
C17_CallerSchemaUnchanged ==
    mlpc = "done" => \A a \in 1..Len(heap0) : heap[a] = heap0[a]

\* create_session stored a session dict under id
Stored(id) == id \in 1..Len(session_data)

\* the last activity of session id is at most 24 hours old
WithinTimeout(id) ==
    (now - session_data[id].last_activity) * TickHours
       <= session_timeout_hours

NoFieldException == \A k \in 1..Len(failed) : failed[k][1] # "fill_failed"

\* C19: a run that returns success after current_page next clicks and
\* without a field exception has current_page + 1 entries in screenshots,
\* the last one being the final capture
C19_ScreenshotPerPageAndFinal ==
    (Returned /\ result.status = "success" /\ NoFieldException) =>
       /\ Len(result.screenshots) = current_page + 1
       /\ Last(result.screenshots) = CaptureScreenshot("final", 0)

\* C20: no screenshot capture and no log write goes to the path of an
\* earlier capture or write
C20_NoFileOverwritten == clobbered = {}

\* the source is a provider page of question containers
ProviderPage == source.provider \in {"google", "typeform", "microsoft"}

\* the field descriptor that the schema has for question container q
FieldOf(res, q) ==
    CHOOSE f \in SeqElems(res.forms[1].fields) : f.id[4][2] = q

\* the container holds a radio control, native or role="radio"
HoldsRadio(b) == b.controls \cap {"radio_role", "radio_input"} # {}

\* the container holds a checkbox control, native or role="checkbox"
HoldsCheckbox(b) == b.controls \cap {"checkbox_role", "checkbox_input"} # {}

\* C21: in each provider parser, the field of a container that holds a
\* radio control has type multiple_choice, and the field of a container
\* that holds a checkbox control and no radio has type checkbox, whatever
\* other inputs the container holds
C21_TypePrecedence ==
    ProviderPage =>
       \A k \in 1..Len(extracted) :
          extracted[k].status = "ok" =>
             \A q \in 1..Len(source.blocks) :
                Emitted(extracted[k], q) =>
                   LET b == source.blocks[q]
                       f == FieldOf(extracted[k], q)
                   IN  /\ HoldsRadio(b) => f.type = "multiple_choice"
                       /\ (HoldsCheckbox(b) /\ ~HoldsRadio(b))
                             => f.type = "checkbox"

\* no option selector yields an option for the choice question b
NoOptionFound(b) ==
    /\ GoogleFieldType(b.controls) \in ChoiceTypes
    /\ GoogleOptionValues(b.opts, GoogleLabel(b, 0)[1], << >>) = << >>

\* C22: a Google choice question for which no option is found still gets
\* its field descriptor, without options, also when the container has the
\* "__other_option__" radio
C22_FieldKeptWithoutOptions ==
    source.provider = "google" =>
       \A k \in 1..Len(extracted) :
          extracted[k].status = "ok" =>
             \A q \in 1..Len(source.blocks) :
                (source.blocks[q].raises = "none"
                    /\ NoOptionFound(source.blocks[q]))
                   => /\ Emitted(extracted[k], q)
                      /\ ~FieldOf(extracted[k], q).has_options

\* the page has no <form>, or no question container
NoStructure ==
    \/ source.provider = "html" /\ ~source.doc.form
    \/ ProviderPage /\ source.blocks = << >>

\* C23: extraction of a page without extractable structure raises; it
\* returns no schema
C23_NoStructureRaises ==
    NoStructure =>
       \A k \in 1..Len(extracted) : extracted[k].status = "ValueError"

\* every fieldset record of a form record, at any depth
RECURSIVE FieldsetRecords(_)
FieldsetRecords(fss) ==
    IF fss = << >> THEN << >>
    ELSE << Head(fss) >> \o FieldsetRecords(Head(fss).fieldsets)
            \o FieldsetRecords(Tail(fss))

\* _parse_field returns a descriptor for the control e
Supported(e) ==
    \/ e.kind.tag \in {"select", "textarea"}
    \/ e.kind.type \in supported_input_types

\* the supported controls of the document whose innermost enclosing
\* fieldset (or the form, for "form" and "div") is one of cs
ControlsIn(doc, cs) ==
    {i \in 1..Len(doc.controls) :
        Supported(doc.controls[i]) /\ doc.controls[i].container \in cs}

\* C27: each supported control of a form is listed exactly once: in the
\* fields of its innermost fieldset, or in the top-level fields of the form
\* when no fieldset holds it
C27_EachControlListedOnce ==
    (source.provider = "html" /\ source.doc.form) =>
       \A k \in 1..Len(extracted) :
          extracted[k].status = "ok" =>
             LET form == extracted[k].forms[1]
                 fss == FieldsetRecords(form.fieldsets)
             IN  /\ Len(form.fields)
                       = Cardinality(ControlsIn(source.doc, {"form", "div"}))
                 /\ \A n \in 1..Len(fss) :
                       Len(fss[n].fields)
                          = Cardinality(ControlsIn(source.doc,
                                                   {fss[n].id[4][1]}))
                 /\ \A c \in {"fs", "fs_fs"} :
                       ControlsIn(source.doc, {c}) # {}
                          => \E n \in 1..Len(fss) : fss[n].id[4][1] = c

C25_EmittedTypesDispatched ==
    \A k \in 1..Len(failed) : failed[k][1] # "unsupported"

\* C26: every label in filled_fields is the label of a field on which an
\* input action was performed
C26_FilledOnlyAfterAction ==
    \A k \in 1..Len(result.filled_fields) :
       \E i \in 1..Len(schema) :
          /\ schema[i].label = result.filled_fields[k]
          /\ \E a \in issued : a[1] = schema[i].id

\* C24 as worded: the selector is by id whenever the field has an id, by
\* name when it has a name and no id, by label (with the role, for the
\* choice types) when it has only a label, and by type otherwise
C24_SelectorPriority ==
    selector # NoSelector =>
       LET f == descriptor
           choice == f.type \in {"multiple_choice", "dropdown"}
       IN  /\ Truthy(f.id) => selector = << "id", f.id, "" >>
           /\ (~Truthy(f.id) /\ Truthy(f.name))
                 => selector = << "name", f.name, "" >>
           /\ (~Truthy(f.id) /\ ~Truthy(f.name) /\ Truthy(f.label))
                 => /\ selector[2] = f.label
                    /\ selector[1] = IF choice THEN "label_role" ELSE "label"
           /\ (~Truthy(f.id) /\ ~Truthy(f.name) /\ ~Truthy(f.label))
                 => selector[1] \in {"tag", "input_type"}

\* C29: the session_id in the response of a tool call made with an id the
\* session manager did not know is the id of an active session, and the
\* current form or conversation that the call set is stored in a session
C29_ReturnedSessionIsActive ==
    (tool_response.tool # "none" /\ tool_response.given = UnknownId) =>
       /\ tool_response.session_id # NotProvided
             => tool_response.session_id \in active_sessions
       /\ (tool_response.tool = "parse_form"
              /\ tool_response.status = "success")
             => \E id \in active_sessions :
                   session_current[id].current_form_id
                      = tool_response.form_id
       /\ (tool_response.tool = "start_conversation"
              /\ tool_response.status = "success")
             => \E id \in active_sessions :
                   session_current[id].current_conversation_id
                      = tool_response.conversation_id

\* no submit_user_response call is under way
Quiescent == \A p \in Procs : spc[p] = "idle"

\* C30: current_field_index never exceeds the number of fields and, between
\* calls, the number of saved responses equals current_field_index and
\* the conversation is completed exactly when the index has reached the
\* number of fields
C30_ProgressMatchesResponses ==
    /\ conversation.current_field_index <= form_fields
    /\ Quiescent =>
          /\ user_responses = conversation.current_field_index
          /\ conversation.conversation_status = "completed"
                <=> conversation.current_field_index = form_fields

====
